---- MODULE Spec2Model ----
(***************************************************************************)
(* A model of woreom/position_scraper: the rolling-window RateLimiter of   *)
(* firecrawl_helper.py as used by the worker threads, and the page/cursor  *)
(* driver of scholar_scraper.py (search_researchers_by_label, the          *)
(* ThreadPoolExecutor batch, save_results, clean_scholar_csv, main), and   *)
(* the extraction pipeline of one profile (extract_researcher_data,        *)
(* crawl_personal_page, the merge of get_profile_details).                 *)
(***************************************************************************)
EXTENDS Integers, Sequences, FiniteSets, TLC

(***************************************************************************)
(* Bounds of the model.                                                    *)
(***************************************************************************)
\* RateLimiter(max_requests, time_window): the instance is modelled with a
\* small budget and a small window (in clock ticks).
max_requests == 2
time_window == 2
\* The clock stops advancing at MaxTime; at most MaxCalls calls are started.
MaxTime == 4
MaxCalls == 5
\* Worker threads that share the limiter.
NumThreads == 2

Threads == 1..NumThreads

\* The `pages` argument of search_researchers_by_label.
MaxPages == 3
\* The listing source holds the profiles 1..MaxStubs (1..PoolStubs in the
\* one-page runs that load the pool); at most MaxFailures detail tasks fail.
MaxStubs == 2
PoolStubs == 6
MaxFailures == 1
\* The version suffix of the output file an earlier run may have left on disk.
MaxOldVersion == 2
\* truncate_content: the character budget max_chars, and the longest
\* content the function is followed on.
MaxChars == 2
MaxContent == 6

\* ThreadPoolExecutor(max_workers=5)
max_workers == 5

\* Continuation cursors (after_author tokens); NoCursor is the empty string.
Cursors == {"c1", "c2"}
NoCursor == ""
\* pandas' missing value, which a text column holds after a misaligned assignment.
NaN == 0

VARIABLES
    \* ---- RateLimiter (firecrawl_helper.py) ----
    clock,        \* datetime.now(), in ticks
    requests,     \* self.requests: the deque of timestamps, head first
    lpc,          \* per thread: position inside wait_if_needed
    now,          \* per thread: the local `now` read on entry
    wake,         \* per thread: the clock value at which time.sleep returns
    claimed,      \* per thread: the capacity check found a free slot
    started,      \* number of calls started so far
    returned,     \* clock values at which calls returned (were admitted)
    raisedCalls,  \* number of calls that ended in an IndexError
    \* ---- driver (scholar_scraper.py) ----
    pc,              \* position of the main thread
    pages,           \* the `pages` argument
    roster,          \* number of profiles the listing source holds
    page,            \* the loop variable of `for page in range(pages)`
    after_author,    \* the continuation cursor
    researchers,     \* self.researchers
    processed_count, \* processed_count
    pending,         \* executor work queue: submitted stubs not yet started
    running,         \* stubs whose get_profile_details is executing
    finished,        \* completed futures not yet yielded by as_completed
    files,           \* the output folder: version suffix -> rows of the CSV
    exit_status,     \* "running", "ok" or "error" (an exception left main)
    interrupted,     \* a KeyboardInterrupt has been delivered
    served,          \* the last profile the listing has served so far
    failures,        \* detail tasks that failed so far
    listing_requests,\* listing pages requested so far
    since_request,   \* checkpoints written since the last listing request
    written,         \* checkpoints written by this run
    owed,            \* a page-level error occurred and no checkpoint followed yet
    page_failed,     \* some listing request of this run has failed
    last_token,      \* what the latest listing request yielded: its cursor, or "error"
    repeated,        \* the latest two listing pages yielded the same non-empty cursor
    dispatched,      \* the stubs of the latest listing page, as submitted
    hung,            \* running tasks whose remote source never answers
    \* ---- one call of a function of the extraction pipeline ----
    input,           \* the arguments and the answers of the services it calls
    output,          \* << >>, or the one-element sequence of what the call produced
    \* ---- one detail task, network call by network call ----
    task_pc,         \* where the task stands
    trace            \* the acquires and the network calls of the task, in order

lvars == <<clock, requests, lpc, now, wake, claimed, started, returned, raisedCalls>>

pool == <<pending, running, finished>>

dvars == <<pc, pages, roster, page, after_author, researchers, processed_count,
           pending, running, finished, files, exit_status, interrupted,
           served, failures, listing_requests, since_request, written, owed,
           page_failed, last_token, repeated, dispatched, hung>>

fvars == <<input, output, task_pc, trace>>

vars == <<lvars, dvars, fvars>>

----------------------------------------------------------------------------
(***************************************************************************)
(* RateLimiter.wait_if_needed, one bytecode-level step per action: the     *)
(* method takes no lock, so other threads run between the steps.           *)
(***************************************************************************)

\* RateLimiter.__init__
InitLimiter ==
    /\ clock = 0
    /\ requests = << >>
    /\ lpc = [t \in Threads |-> "idle"]
    /\ now = [t \in Threads |-> 0]
    /\ wake = [t \in Threads |-> 0]
    /\ claimed = [t \in Threads |-> FALSE]
    /\ started = 0
    /\ returned = << >>
    /\ raisedCalls = 0

\* The call raised IndexError: crawl_personal_page's handler swallows it and
\* the worker goes on without having been admitted.
Raised(t) ==
    /\ lpc' = [lpc EXCEPT ![t] = "idle"]
    /\ raisedCalls' = raisedCalls + 1
    /\ UNCHANGED <<clock, requests, now, wake, claimed, started, returned>>

\* line 17: now = datetime.now()
Enter(t) ==
    /\ lpc[t] = "idle"
    /\ started < MaxCalls
    /\ started' = started + 1
    /\ now' = [now EXCEPT ![t] = clock]
    /\ claimed' = [claimed EXCEPT ![t] = FALSE]
    /\ lpc' = [lpc EXCEPT ![t] = "prune_nonempty"]
    /\ UNCHANGED <<clock, requests, wake, returned, raisedCalls>>
    /\ UNCHANGED <<dvars, fvars>>

\* line 19, left operand: `while self.requests and ...`
PruneNonEmpty(t) ==
    /\ lpc[t] = "prune_nonempty"
    /\ lpc' = [lpc EXCEPT ![t] = IF requests # << >> THEN "prune_age" ELSE "check"]
    /\ UNCHANGED <<clock, requests, now, wake, claimed, started, returned, raisedCalls>>
    /\ UNCHANGED <<dvars, fvars>>

\* line 19, right operand: (now - self.requests[0]) > timedelta(time_window)
PruneAge(t) ==
    /\ lpc[t] = "prune_age"
    /\ IF requests = << >>
       THEN Raised(t)
       ELSE /\ lpc' = [lpc EXCEPT ![t] =
                         IF now[t] - Head(requests) > time_window
                         THEN "popleft" ELSE "check"]
            /\ UNCHANGED <<clock, requests, now, wake, claimed, started,
                           returned, raisedCalls>>
    /\ UNCHANGED <<dvars, fvars>>

\* line 20: self.requests.popleft()
PopLeft(t) ==
    /\ lpc[t] = "popleft"
    /\ IF requests = << >>
       THEN Raised(t)
       ELSE /\ requests' = Tail(requests)
            /\ lpc' = [lpc EXCEPT ![t] = "prune_nonempty"]
            /\ UNCHANGED <<clock, now, wake, claimed, started, returned, raisedCalls>>
    /\ UNCHANGED <<dvars, fvars>>

\* line 23: if len(self.requests) >= self.max_requests
CheckCapacity(t) ==
    /\ lpc[t] = "check"
    /\ IF Len(requests) >= max_requests
       THEN /\ lpc' = [lpc EXCEPT ![t] = "wait_time"]
            /\ UNCHANGED claimed
       ELSE /\ lpc' = [lpc EXCEPT ![t] = "append"]
            /\ claimed' = [claimed EXCEPT ![t] = TRUE]
    /\ UNCHANGED <<clock, requests, now, wake, started, returned, raisedCalls>>
    /\ UNCHANGED <<dvars, fvars>>

\* lines 24-27: wait_time = requests[0] + time_window - now; sleep if positive
WaitTime(t) ==
    /\ lpc[t] = "wait_time"
    /\ IF requests = << >>
       THEN Raised(t)
       ELSE LET wait_time == Head(requests) + time_window - now[t] IN
            /\ IF wait_time > 0
               THEN /\ wake' = [wake EXCEPT ![t] = clock + wait_time]
                    /\ lpc' = [lpc EXCEPT ![t] = "sleep"]
               ELSE /\ lpc' = [lpc EXCEPT ![t] = "append"]
                    /\ UNCHANGED wake
            /\ UNCHANGED <<clock, requests, now, claimed, started, returned,
                           raisedCalls>>
    /\ UNCHANGED <<dvars, fvars>>

\* line 27: time.sleep(wait_time) returns once the time has passed
Sleep(t) ==
    /\ lpc[t] = "sleep"
    /\ clock >= wake[t]
    /\ lpc' = [lpc EXCEPT ![t] = "append"]
    /\ UNCHANGED <<clock, requests, now, wake, claimed, started, returned, raisedCalls>>
    /\ UNCHANGED <<dvars, fvars>>

\* The timestamp wait_if_needed records: the `now` read on entry (line 17).
Stamp(t) == now[t]

\* line 30: self.requests.append(now); the call returns
AppendNow(t) ==
    /\ lpc[t] = "append"
    /\ requests' = Append(requests, Stamp(t))
    /\ returned' = Append(returned, clock)
    /\ lpc' = [lpc EXCEPT ![t] = "idle"]
    /\ claimed' = [claimed EXCEPT ![t] = FALSE]
    /\ UNCHANGED <<clock, now, wake, started, raisedCalls>>
    /\ UNCHANGED <<dvars, fvars>>

\* Time passes.
Tick ==
    /\ clock < MaxTime
    /\ clock' = clock + 1
    /\ UNCHANGED <<requests, lpc, now, wake, claimed, started, returned, raisedCalls>>

wait_if_needed(t) ==
    \/ Enter(t)
    \/ PruneNonEmpty(t)
    \/ PruneAge(t)
    \/ PopLeft(t)
    \/ CheckCapacity(t)
    \/ WaitTime(t)
    \/ Sleep(t)
    \/ AppendNow(t)

----------------------------------------------------------------------------
(***************************************************************************)
(* Persistence: utils.get_unique_filename, clean_scholar_csv, save_results *)
(***************************************************************************)

\* A listing stub as _parse_researchers builds it (name, profile_id); the
\* model names a researcher by the profile id.
Stub(id) == [profile_id |-> id, name |-> id]

\* The dict get_profile_details returns for a stub found on page p: the stub
\* itself, with the detail fields filled (ok) or, after an exception, not.
Profile(id, p, ok) == [profile_id |-> id, name |-> id, page |-> p, ok |-> ok]

\* A naming that always takes version 1, whatever is on disk.
get_unique_filename_Version1(disk) == 1

\* utils.get_unique_filename: the first version for which no file exists.
get_unique_filename(disk) ==
    CHOOSE v \in 1..(Cardinality(DOMAIN disk) + 1) :
        /\ v \notin DOMAIN disk
        /\ \A u \in 1..(v - 1) : u \in DOMAIN disk

\* df.drop_duplicates(subset='profile_id'): the index labels that survive,
\* the first row of every profile_id.
drop_duplicates(rows) ==
    {i \in 1..Len(rows) :
        \A j \in 1..(i - 1) : rows[j].profile_id # rows[i].profile_id}

\* sort_values('name'): ascending, missing values last.
NameBefore(a, b) == a.name # NaN /\ (b.name = NaN \/ a.name < b.name)

RECURSIVE InsertByName(_, _)
InsertByName(r, s) ==
    IF s = << >> THEN <<r>>
    ELSE IF NameBefore(r, Head(s)) THEN <<r>> \o s
    ELSE <<Head(s)>> \o InsertByName(r, Tail(s))

RECURSIVE sort_values(_)
sort_values(rows) ==
    IF rows = << >> THEN << >>
    ELSE InsertByName(rows[Len(rows)], sort_values(SubSeq(rows, 1, Len(rows) - 1)))

\* clean_scholar_csv: new_df is a copy of every row; the de-duplicated frame
\* df is only read to refill the text columns, index-aligned, so a row that
\* drop_duplicates removed stays in new_df with its text columns missing.
clean_scholar_csv(rows) ==
    LET df == drop_duplicates(rows)
        new_df == [i \in 1..Len(rows) |->
                     [rows[i] EXCEPT !.name = IF i \in df THEN rows[i].name ELSE NaN]]
    IN  sort_values(new_df)

\* pd.DataFrame([]) has no profile_id column: drop_duplicates raises KeyError.
SaveRaises == researchers = << >>

\* The file holds a row for every accumulated Record.
Covers(rows, recs) ==
    \A i \in 1..Len(recs) :
        \E j \in 1..Len(rows) :
            /\ rows[j].profile_id = recs[i].profile_id
            /\ rows[j].page = recs[i].page
            /\ rows[j].ok = recs[i].ok

\* save_results, when it does not raise: one new file under a fresh version.
save_results ==
    LET rows == clean_scholar_csv(researchers) IN
    /\ files' = files @@ (get_unique_filename(files) :> rows)
    /\ written' = written + 1
    /\ since_request' = since_request + 1
    /\ owed' = (owed /\ ~Covers(rows, researchers))

\* An exception leaves main: the process ends with a traceback.
Crash ==
    /\ pc' = "exit"
    /\ exit_status' = "error"

----------------------------------------------------------------------------
(***************************************************************************)
(* GoogleScholarScraper.search_researchers_by_label and main               *)
(***************************************************************************)

\* The profile ids lo..hi, in listing order.
Range(lo, hi) == [i \in 1..(hi - lo + 1) |-> lo + i - 1]

\* The listings the source may serve next: the profiles that follow the last
\* one served, possibly none, possibly led by a repeat of the last one.
Listings ==
    {Range(lo, hi) : lo \in {l \in {served, served + 1} : l >= 1},
                     hi \in served..roster}

\* Files that earlier runs left in the output folder.
OldFile == <<[profile_id |-> 1, name |-> 1, page |-> 0, ok |-> TRUE]>>

\* The output folder is empty or holds one file of an earlier run.
OldDisks == {<< >>, (MaxOldVersion :> OldFile)}

\* GoogleScholarScraper.__init__ and the entry of main
InitDriver(pagesArg, rosterSize, disks) ==
    /\ pc = "loop"
    /\ pages = pagesArg
    /\ roster = rosterSize
    /\ page = 0
    /\ after_author = NoCursor
    /\ researchers = << >>
    /\ processed_count = 0
    /\ pending = << >>
    /\ running = {}
    /\ finished = {}
    /\ files \in disks
    /\ exit_status = "running"
    /\ interrupted = FALSE
    /\ served = 0
    /\ failures = 0
    /\ listing_requests = 0
    /\ since_request = 0
    /\ written = 0
    /\ owed = FALSE
    /\ page_failed = FALSE
    /\ last_token = NoCursor
    /\ repeated = FALSE
    /\ dispatched = << >>
    /\ hung = {}

\* A loop without a page budget (`while True`).
MorePages_Always == TRUE

\* line 293: range(pages) has an index left
MorePages == page < pages

\* line 293: for page in range(pages); past the last page the method returns
ForPage ==
    /\ pc = "loop"
    /\ pc' = IF MorePages THEN "request" ELSE "returned"
    /\ UNCHANGED <<pages, roster, page, after_author, researchers, processed_count,
                   pool, files, exit_status, interrupted, served, failures,
                   listing_requests, since_request, written, owed>>
    /\ UNCHANGED <<page_failed, last_token, repeated, dispatched, lvars, fvars, hung>>

\* lines 303-304: the cursor the listing request of this iteration carries
\* (`if after_author and page > 0: params["after_author"] = after_author`).
params_after_author ==
    IF after_author # NoCursor /\ page > 0 THEN after_author ELSE NoCursor

\* lines 296-322, the request succeeds: the page is parsed, the cursor is
\* replaced by the page's token and one task per stub is submitted.
RequestOk ==
    /\ pc = "request"
    /\ \E stubs \in Listings, token \in Cursors \cup {NoCursor} :
        /\ served' = IF stubs = << >> THEN served ELSE stubs[Len(stubs)]
        /\ after_author' = token
        /\ pending' = stubs
        /\ dispatched' = stubs
        /\ last_token' = token
        /\ repeated' = (token # NoCursor /\ token = last_token)
    /\ listing_requests' = listing_requests + 1
    /\ since_request' = 0
    /\ pc' = "batch"
    /\ UNCHANGED <<pages, roster, page, researchers, processed_count, running, finished,
                   files, exit_status, interrupted, failures, written, owed>>
    /\ UNCHANGED <<page_failed, lvars, fvars, hung>>

\* lines 309-312 raise (network error, HTTP status, pagination markup):
\* control goes to the handler of line 335, nothing else has changed.
RequestFails ==
    /\ pc = "request"
    /\ listing_requests' = listing_requests + 1
    /\ since_request' = 0
    /\ owed' = TRUE
    /\ page_failed' = TRUE
    /\ last_token' = "error"
    /\ repeated' = FALSE
    /\ dispatched' = << >>
    /\ pc' = "except"
    /\ UNCHANGED <<pages, roster, page, after_author, researchers, processed_count,
                   pool, files, exit_status, interrupted, served, failures, written>>
    /\ UNCHANGED <<lvars, fvars, hung>>

\* A pool that starts a thread for every submitted task.
WorkerFree_Unbounded == TRUE

\* A worker thread may take the next queued task.
WorkerFree == Cardinality(running) < max_workers

\* A pool thread takes the oldest queued task (executor.submit, line 320).
TaskStart ==
    /\ pending # << >>
    /\ WorkerFree
    /\ running' = running \cup {Head(pending)}
    /\ pending' = Tail(pending)
    /\ UNCHANGED <<pc, pages, roster, page, after_author, researchers, processed_count,
                   finished, files, exit_status, interrupted, served, failures,
                   listing_requests, since_request, written, owed>>
    /\ UNCHANGED <<page_failed, last_token, repeated, dispatched, lvars, fvars, hung>>

\* A pool in which the failure of a task cancels the tasks still queued.
QueueAfter_CancelOnFailure(ok) == IF ok THEN pending ELSE << >>

\* lines 284-286: the handler of get_profile_details prints and returns; the
\* exception does not reach the executor and the queued tasks stay queued.
QueueAfter(ok) == pending

\* A task whose failure leaves nothing to collect.
Results_NoneOnFailure(id, p, ok) == IF ok THEN {Profile(id, p, ok)} ELSE {}

\* lines 282 and 284-286: the task returns the researcher, after an
\* exception too; future.result() yields it to the collecting loop.
Results(id, p, ok) == {Profile(id, p, ok)}

\* get_profile_details returns: the filled profile (line 282) or, after an
\* exception, the researcher as far as it got (line 286).
TaskFinish ==
    \E id \in running \ hung, ok \in BOOLEAN :
        /\ ok \/ failures < MaxFailures
        /\ failures' = IF ok THEN failures ELSE failures + 1
        /\ running' = running \ {id}
        /\ finished' = finished \cup Results(id, page, ok)
        /\ pending' = QueueAfter(ok)
        /\ UNCHANGED <<pc, pages, roster, page, after_author, researchers, processed_count,
                       files, exit_status, interrupted, served,
                       listing_requests, since_request, written, owed,
                       page_failed, last_token, repeated, dispatched, lvars, fvars, hung>>

\* An accumulator that ignores a profile whose key it already holds.
add_IfAbsent(store, profile) ==
    IF \E i \in 1..Len(store) : store[i].profile_id = profile.profile_id
    THEN store
    ELSE Append(store, profile)

\* self.researchers.append(profile)
add(store, profile) == Append(store, profile)

\* lines 323-327: as_completed yields a completed future; its result is
\* appended to self.researchers.
Collect ==
    /\ pc = "batch"
    /\ \E profile \in finished :
        /\ researchers' = add(researchers, profile)
        /\ finished' = finished \ {profile}
    /\ processed_count' = processed_count + 1
    /\ UNCHANGED <<pc, pages, roster, page, after_author, pending, running, files,
                   exit_status, interrupted, served, failures, listing_requests,
                   since_request, written, owed>>
    /\ UNCHANGED <<page_failed, last_token, repeated, dispatched, lvars, fvars, hung>>

\* A loop that is left as soon as no completed future is waiting.
BatchComplete_NoWait == finished = {}

\* as_completed is exhausted and the executor has shut down: every submitted
\* task has run to its end and every result has been collected.
BatchComplete == pending = << >> /\ running = {} /\ finished = {}

\* line 327 -> 329: the `with` block is left
LeaveBatch ==
    /\ pc = "batch"
    /\ BatchComplete
    /\ pc' = "after_batch"
    /\ UNCHANGED <<pages, roster, page, after_author, researchers, processed_count,
                   pool, files, exit_status, interrupted, served, failures,
                   listing_requests, since_request, written, owed>>
    /\ UNCHANGED <<page_failed, last_token, repeated, dispatched, lvars, fvars, hung>>

\* A walker that never takes the page's cursor for the end of the listing.
Exhausted_Never == FALSE

\* A walker that also stops when the cursor of the page before comes again.
Exhausted_LoopGuard == after_author = NoCursor \/ repeated

\* line 329: `if not after_author`
Exhausted == after_author = NoCursor

\* A driver that saves the Record set when the batch of a page is complete.
AfterBatchSave_Checkpoint ==
    IF SaveRaises
    THEN UNCHANGED <<files, since_request, written, owed>>
    ELSE save_results

\* lines 327-333: between the end of the `with` block and the next
\* iteration save_results is not called.
AfterBatchSave == UNCHANGED <<files, since_request, written, owed>>

\* lines 329-333: break on an empty cursor, else sleep and take the next page
AfterBatch ==
    /\ pc = "after_batch"
    /\ AfterBatchSave
    /\ IF Exhausted
       THEN pc' = "returned" /\ page' = page
       ELSE pc' = "loop" /\ page' = page + 1
    /\ UNCHANGED <<pages, roster, after_author, researchers, processed_count, pool,
                   exit_status, interrupted, served, failures, listing_requests>>
    /\ UNCHANGED <<page_failed, last_token, repeated, dispatched, lvars, fvars, hung>>

\* A handler that ends the pagination after a page-level failure.
AfterPageError_Stop == "returned"

\* line 338: where the page-level handler goes once the checkpoint is written
AfterPageError == "loop"

\* lines 335-338: the page-level handler saves and continues with the next
\* page; an exception of save_results leaves the method and main.
PageError ==
    /\ pc = "except"
    /\ IF SaveRaises
       THEN /\ Crash
            /\ UNCHANGED <<page, files, since_request, written, owed>>
       ELSE /\ save_results
            /\ pc' = AfterPageError
            /\ page' = page + 1
            /\ UNCHANGED exit_status
    /\ UNCHANGED <<pages, roster, after_author, researchers, processed_count, pool,
                   interrupted, served, failures, listing_requests>>
    /\ UNCHANGED <<page_failed, last_token, repeated, dispatched, lvars, fvars, hung>>

\* A KeyboardInterrupt reaches the main thread inside the try of line 289.
\* Inside the `with` block the executor's __exit__ runs first.
Interrupt ==
    /\ ~interrupted
    /\ pc \in {"loop", "request", "batch", "after_batch", "except"}
    /\ interrupted' = TRUE
    /\ pc' = IF pc = "batch" THEN "shutdown" ELSE "interrupted"
    /\ UNCHANGED <<pages, roster, page, after_author, researchers, processed_count,
                   pool, files, exit_status, served, failures,
                   listing_requests, since_request, written, owed>>
    /\ UNCHANGED <<page_failed, last_token, repeated, dispatched, lvars, fvars, hung>>

\* An executor that is left without waiting (shutdown(wait=False)).
ShutdownDone_NoWait == TRUE

\* ThreadPoolExecutor.__exit__: shutdown(wait=True) returns when the queued
\* and the running tasks have ended.
ShutdownDone == pending = << >> /\ running = {}

Shutdown ==
    /\ pc = "shutdown"
    /\ ShutdownDone
    /\ pc' = "interrupted"
    /\ UNCHANGED <<pages, roster, page, after_author, researchers, processed_count,
                   pool, files, exit_status, interrupted, served, failures,
                   listing_requests, since_request, written, owed>>
    /\ UNCHANGED <<page_failed, last_token, repeated, dispatched, lvars, fvars, hung>>

\* A handler that swallows the interrupt once it has saved.
Reraise_Swallowed ==
    /\ pc' = "exit"
    /\ exit_status' = "ok"

\* line 343: `raise`; main has no handler, the KeyboardInterrupt leaves it.
Reraise == Crash

\* lines 340-343: save, then re-raise: the KeyboardInterrupt (or the
\* exception of save_results) leaves main.
InterruptHandler ==
    /\ pc = "interrupted"
    /\ IF SaveRaises
       THEN UNCHANGED <<files, since_request, written, owed>> /\ Crash
       ELSE save_results /\ Reraise
    /\ UNCHANGED <<pages, roster, page, after_author, researchers, processed_count,
                   pool, interrupted, served, failures, listing_requests>>
    /\ UNCHANGED <<page_failed, last_token, repeated, dispatched, lvars, fvars, hung>>

\* main, line 360: scraper.save_results(label), then the process ends
MainSave ==
    /\ pc = "returned"
    /\ IF SaveRaises
       THEN /\ Crash
            /\ UNCHANGED <<files, since_request, written, owed>>
       ELSE /\ save_results
            /\ pc' = "exit"
            /\ exit_status' = "ok"
    /\ UNCHANGED <<pages, roster, page, after_author, researchers, processed_count,
                   pool, interrupted, served, failures, listing_requests>>
    /\ UNCHANGED <<page_failed, last_token, repeated, dispatched, lvars, fvars, hung>>

\* No function of the extraction pipeline is being followed.
NoTask == task_pc = "idle" /\ trace = << >>

NoCall == input = << >> /\ output = << >> /\ NoTask

Init == InitLimiter /\ InitDriver(MaxPages, MaxStubs, OldDisks) /\ NoCall

\* One listing page that yields more stubs than the pool has workers.
InitPool == InitLimiter /\ InitDriver(1, PoolStubs, {<< >>}) /\ NoCall

Next ==
    \/ ForPage
    \/ RequestOk
    \/ RequestFails
    \/ TaskStart
    \/ TaskFinish
    \/ Collect
    \/ LeaveBatch
    \/ AfterBatch
    \/ PageError
    \/ Interrupt
    \/ Shutdown
    \/ InterruptHandler
    \/ MainSave

Spec == Init /\ [][Next]_vars

\* line 190: requests.get(profile_url) is called without a timeout, and
\* future.result() (line 324) waits without one: a profile server that
\* accepts the connection and never answers keeps its task running.
TaskHangs ==
    /\ \E id \in running \ hung : hung' = hung \cup {id}
    /\ UNCHANGED <<pc, pages, roster, page, after_author, researchers, processed_count,
                   pool, files, exit_status, interrupted, served, failures,
                   listing_requests, since_request, written, owed>>
    /\ UNCHANGED <<page_failed, last_token, repeated, dispatched, lvars, fvars>>

\* The runs in which a remote source may never answer.
NextHang == Next \/ TaskHangs

SpecHang == Init /\ [][NextHang]_vars

SpecPool == InitPool /\ [][Next]_vars

\* One caller: a sequence of calls on one instance.  The body of the method
\* runs in no time: the clock advances between calls and during time.sleep.
TickSeq == lpc[1] \in {"idle", "sleep"} /\ Tick /\ UNCHANGED <<dvars, fvars>>

TickAny == Tick /\ UNCHANGED <<dvars, fvars>>

NextSeq == TickSeq \/ wait_if_needed(1)

\* The worker threads of the pool call the shared instance concurrently.
NextLimiter == TickAny \/ \E t \in Threads : wait_if_needed(t)

SpecSeq == Init /\ [][NextSeq]_vars

SpecLimiter == Init /\ [][NextLimiter]_vars

----------------------------------------------------------------------------
(***************************************************************************)
(* The extraction pipeline of one profile: extract_researcher_data         *)
(* (data_extractor.py), crawl_personal_page (firecrawl_helper.py) and the  *)
(* merge of get_profile_details (scholar_scraper.py).  A dict is a         *)
(* function from its keys to strings; '' is the empty (falsy) value.       *)
(***************************************************************************)

EmptyDict == [k \in {} |-> ""]

\* dict.get(key, default)
Get(d, key, default) == IF key \in DOMAIN d THEN d[key] ELSE default

\* {k: v for k, v in d.items() if v or k in keep}
Truthy(d, keep) == [k \in {k \in DOMAIN d : d[k] # "" \/ k \in keep} |-> d[k]]

\* The JSON objects the service may answer with, over the keys the prompt
\* asks for (position and institute stand for the text fields); every key
\* may be missing or empty.
JsonObjects ==
    {[t |-> "object", v |-> d] :
        d \in UNION {[ks -> {"", "x"}] : ks \in {{}, {"position"}, {"email"},
                                                  {"position", "email"},
                                                  {"position", "institute", "email"}}}}
    \cup {[t |-> "object", v |-> d] :
            d \in [{"position", "funding_likelihood"} -> {"", "High"}]}
    \cup {[t |-> "object", v |-> d] :
            d \in {[profile_id |-> "x"], [profile_url |-> "x", email |-> "x"],
                   [profile_id |-> "x", profile_url |-> "x", position |-> "x"]}}

\* JSON values that are no object: data.items() does not exist for them.
JsonScalars == {[t |-> k, v |-> EmptyDict] : k \in {"array", "string", "number", "null"}}

Fence == [t |-> "fence", v |-> EmptyDict]
Garbage == [t |-> "garbage", v |-> EmptyDict]

\* The text of a completion, token by token: a JSON value or text that is
\* no JSON, bare or inside a ```json fence, or a value with trailing text.
Completions ==
    UNION {{<<b>>, <<Fence, b, Fence>>} : b \in JsonObjects \cup JsonScalars \cup {Garbage}}
    \cup {<<b, Garbage>> : b \in JsonScalars}
    \cup {<< >>}

\* What the service does with a request: it raises, or answers with a text.
ServiceAnswers ==
    {[raises |-> TRUE, text |-> << >>]}
    \cup {[raises |-> FALSE, text |-> c] : c \in Completions}

\* clean_openai_response: the fence markers are removed (lines 9-11)
RECURSIVE clean_openai_response(_)
clean_openai_response(text) ==
    IF text = << >> THEN << >>
    ELSE IF Head(text) = Fence THEN clean_openai_response(Tail(text))
    ELSE <<Head(text)>> \o clean_openai_response(Tail(text))

\* json.loads: the text must be exactly one JSON value.
json_loads(text) ==
    IF Len(text) = 1 /\ text[1].t \notin {"fence", "garbage"}
    THEN [exc |-> "none", value |-> text[1]]
    ELSE [exc |-> "JSONDecodeError", value |-> Garbage]

\* lines 103-123 without the handlers: the exception raised, or the dict.
ExtractBody(answer) ==
    IF answer.raises THEN [exc |-> "APIError", value |-> EmptyDict]
    ELSE LET data == json_loads(clean_openai_response(answer.text)) IN
         IF data.exc # "none" THEN [exc |-> data.exc, value |-> EmptyDict]
         ELSE IF data.value.t # "object"
              THEN [exc |-> "AttributeError", value |-> EmptyDict]
              ELSE [exc |-> "none", value |-> Truthy(data.value.v, {})]

\* A function with the handler of line 125 only.
Handled_JSONDecodeErrorOnly(exc) == exc = "JSONDecodeError"

\* lines 125 and 130: `except json.JSONDecodeError` and `except Exception`
\* between them catch every exception of the try block.
Handled(exc) == exc = "JSONDecodeError" \/ exc \in {"APIError", "AttributeError"}

\* extract_researcher_data: OpenAI() (line 69) is built outside the try.
extract_researcher_data(client_ok, answer) ==
    IF ~client_ok THEN [exc |-> "OpenAIError", value |-> EmptyDict]
    ELSE LET body == ExtractBody(answer) IN
         IF body.exc = "none" THEN body
         ELSE IF Handled(body.exc) THEN [exc |-> "none", value |-> EmptyDict]
         ELSE body

\* What Firecrawl does with the two scrape_url calls of lines 70 and 83.
Scrapes == {"ok", "fallback_ok", "fails"}

\* A crawl that goes on without looking at the key.
HasApiKey_NotChecked(in) == TRUE

\* lines 39-40: os.getenv('FIRECRAWL_API_KEY') is set
HasApiKey(in) == in.api_key

\* A result that hands on every key of the extracted data.
crawl_result_EveryKey(extracted_data, url) ==
    [source_url |-> url] @@ extracted_data
        @@ [position |-> "", institute |-> "", email |-> "",
            funding_likelihood |-> "Medium"]

\* lines 89-98: the result is built from the keys of the Record's fields
\* only (position and institute stand for the text fields).
crawl_result(extracted_data, url) ==
    [position |-> Get(extracted_data, "position", ""),
     institute |-> Get(extracted_data, "institute", ""),
     email |-> Get(extracted_data, "email", ""),
     funding_likelihood |-> Get(extracted_data, "funding_likelihood", "Medium"),
     source_url |-> url]

\* crawl_personal_page: {} without an API key (line 42) and after any
\* exception (line 108); else the extracted fields under the record's names,
\* funding_likelihood defaulting to 'Medium', the empty ones removed.
crawl_personal_page(url, in) ==
    IF ~HasApiKey(in) \/ in.scrape = "fails" THEN EmptyDict
    ELSE LET extracted_data == extract_researcher_data(in.client_ok, in.answer) IN
         IF extracted_data.exc # "none" THEN EmptyDict
         ELSE Truthy(crawl_result(extracted_data.value, url), {"funding_likelihood"})

\* A merge in which the values the Record already has win.
update_KeepOld(researcher, d) == researcher @@ d

\* dict.update(d): the keys of d replace those of the dict
update(researcher, d) == d @@ researcher

\* _parse_researchers, lines 175-179: the stub of a listed researcher.
Stubs ==
    {[name |-> "n1", profile_url |-> "base_url?user=id1", profile_id |-> "id1"]}

\* The inputs of one detail task: the stub, whether the profile page could be fetched
\* and parsed, what it showed, and what the services and the homepage give.
DetailInputs ==
    [researcher : Stubs, fetch_ok : BOOLEAN, email : {"", "e0"}, position : {"", "p0"},
     website : {"", "w"}, api_key : BOOLEAN, scrape : Scrapes,
     client_ok : BOOLEAN, answer : ServiceAnswers, website_email : {"", "e2"}]

\* extract_email_from_webpage: None ('' here) without a url (line 90), else
\* what the pattern search of the homepage finds.
extract_email_from_webpage(url, in) == IF url = "" THEN "" ELSE in.website_email

\* lines 245-269: the fields of the profile page, then those of the crawl.
enhanced(in) ==
    LET parsed == update(in.researcher,
                         [email |-> in.email, website |-> in.website,
                          position |-> in.position, institute |-> "",
                          funding_likelihood |-> ""])
        firecrawl_data == IF parsed.website # ""
                          THEN crawl_personal_page(parsed.website, in)
                          ELSE EmptyDict
    IN  IF DOMAIN firecrawl_data # {}
        THEN update(parsed, firecrawl_data)
        ELSE parsed

\* A fallback that assigns whatever the lookup of the homepage would give.
email_fallback_Unconditional(researcher, in) ==
    [researcher EXCEPT !["email"] = in.website_email]

\* lines 271-279: the fallback to the pattern search
email_fallback(researcher, in) ==
    IF researcher["email"] = "" /\ researcher["website"] # ""
    THEN LET website_email == extract_email_from_webpage(researcher["website"], in)
         IN  IF website_email # ""
             THEN [researcher EXCEPT !["email"] = website_email]
             ELSE researcher
    ELSE researcher

\* get_profile_details, lines 187-286, on the stub in.researcher.
get_profile_details(in) ==
    IF ~in.fetch_ok THEN in.researcher
    ELSE email_fallback(enhanced(in), in)

\* No run of the driver: the function is followed on its own.
InitCall(inputs) ==
    /\ InitLimiter
    /\ InitDriver(0, 0, {<< >>})
    /\ input \in inputs
    /\ output = << >>
    /\ NoTask

\* One call of extract_researcher_data.
ExtractInputs == [client_ok : BOOLEAN, answer : ServiceAnswers]

CallExtract ==
    /\ output = << >>
    /\ output' = <<extract_researcher_data(input.client_ok, input.answer)>>
    /\ UNCHANGED <<input, task_pc, trace, lvars, dvars>>

SpecExtract == InitCall(ExtractInputs) /\ [][CallExtract]_vars

\* One detail task.
CallDetail ==
    /\ output = << >>
    /\ output' = <<get_profile_details(input)>>
    /\ UNCHANGED <<input, task_pc, trace, lvars, dvars>>

SpecDetail == InitCall(DetailInputs) /\ [][CallDetail]_vars

----------------------------------------------------------------------------
(***************************************************************************)
(* One detail task followed network call by network call: the profile     *)
(* page (get_profile_details), the two scrapes of crawl_personal_page with *)
(* their rate_limiter.wait_if_needed(), the extraction service, and the    *)
(* homepage (extract_email_from_webpage).  trace lists the calls.          *)
(***************************************************************************)

\* The task is at `here`, makes the call and goes on at `there`.
Step(here, call, there) ==
    /\ task_pc = here
    /\ trace' = IF call = "" THEN trace ELSE Append(trace, call)
    /\ task_pc' = there

\* scholar_scraper.py line 190: requests.get(researcher['profile_url'], ...);
\* a failure goes to the handler of line 284, which returns the stub.
FetchProfile ==
    /\ Step("profile", "get_profile",
            IF ~input.fetch_ok THEN "return"
            ELSE IF input.website # "" THEN "crawl" ELSE "fallback")
    /\ UNCHANGED <<input, output, lvars, dvars>>

\* firecrawl_helper.py lines 38-44: without an API key the crawl returns {}
CrawlStart ==
    /\ Step("crawl", "", IF HasApiKey(input) THEN "wait" ELSE "fallback")
    /\ UNCHANGED <<input, output, lvars, dvars>>

\* rate_limiter.wait_if_needed() by the one task, in one step: at capacity
\* the call sleeps until the oldest entry is time_window old, and it appends
\* the time of its entry.  (Nothing is pruned: the clock of the task only
\* moves by these sleeps, and no entry gets older than time_window.)
Admit ==
    /\ LET wait_time == IF Len(requests) >= max_requests
                        THEN Head(requests) + time_window - clock ELSE 0
       IN  clock' = IF wait_time > 0 THEN clock + wait_time ELSE clock
    /\ requests' = Append(requests, clock)
    /\ returned' = Append(returned, clock')
    /\ started' = started + 1
    /\ UNCHANGED <<lpc, now, wake, claimed, raisedCalls>>
    /\ UNCHANGED <<input, output, dvars>>

\* line 47
AcquireScrape ==
    /\ Step("wait", "wait_if_needed", "scrape")
    /\ Admit

\* line 70: app.scrape_url(url=url, params=params); line 79 catches a failure
ScrapeUrl ==
    /\ Step("scrape", "scrape_url",
            IF input.scrape = "ok" THEN "extract" ELSE "wait_retry")
    /\ UNCHANGED <<input, output, lvars, dvars>>

\* line 81
AcquireRetry ==
    /\ Step("wait_retry", "wait_if_needed", "scrape_retry")
    /\ Admit

\* line 83: app.scrape_url(url=url); a failure goes to the handler of line 106
ScrapeRetry ==
    /\ Step("scrape_retry", "scrape_url",
            IF input.scrape = "fallback_ok" THEN "extract" ELSE "fallback")
    /\ UNCHANGED <<input, output, lvars, dvars>>

\* line 86: extract_researcher_data calls the extraction service when its
\* client could be built.
Extract ==
    /\ Step("extract", IF input.client_ok THEN "completion" ELSE "", "fallback")
    /\ UNCHANGED <<input, output, lvars, dvars>>

\* scholar_scraper.py lines 271-279: without an email so far, the homepage is
\* fetched (line 93: requests.get(url, headers=headers, timeout=10)).
Fallback ==
    /\ LET firecrawl_data == IF input.website # ""
                             THEN crawl_personal_page(input.website, input)
                             ELSE EmptyDict
           email == Get(firecrawl_data, "email", input.email)
       IN  Step("fallback",
                IF email = "" /\ input.website # "" THEN "get_website" ELSE "",
                "return")
    /\ UNCHANGED <<input, output, lvars, dvars>>

\* lines 282 and 286: return researcher
Return ==
    /\ Step("return", "", "returned")
    /\ output' = <<get_profile_details(input)>>
    /\ UNCHANGED <<input, lvars, dvars>>

InitTask ==
    /\ InitLimiter
    /\ InitDriver(0, 0, {<< >>})
    /\ input \in DetailInputs
    /\ output = << >>
    /\ task_pc = "profile"
    /\ trace = << >>

NextTask ==
    \/ FetchProfile
    \/ CrawlStart
    \/ AcquireScrape
    \/ ScrapeUrl
    \/ AcquireRetry
    \/ ScrapeRetry
    \/ Extract
    \/ Fallback
    \/ Return

SpecTask == InitTask /\ [][NextTask]_vars

----------------------------------------------------------------------------
(***************************************************************************)
(* truncate_content (data_extractor.py).  A text is the sequence of its    *)
(* characters: "x" is an ordinary character, " " a blank, "\n" the line    *)
(* break, "k" stands for a match of one of the skip_patterns and "m" for a *)
(* match of one of the main content markers.                               *)
(***************************************************************************)

Chars == {"x", " ", "\n", "k", "m"}

\* "\n...[content truncated]...\n": ordinary text between two line breaks
Marker == <<"\n", "x", "\n">>

\* The contents of up to MaxContent characters.
Contents == UNION {[1..n -> Chars] : n \in 0..MaxContent}

\* str.split(sep): the pieces between the separators
RECURSIVE split(_, _)
split(text, sep) ==
    IF \A i \in 1..Len(text) : text[i] # sep THEN <<text>>
    ELSE LET i == CHOOSE i \in 1..Len(text) :
                      text[i] = sep /\ \A j \in 1..(i - 1) : text[j] # sep
         IN  <<SubSeq(text, 1, i - 1)>> \o split(SubSeq(text, i + 1, Len(text)), sep)

\* str.strip(): without the blanks at either end
RECURSIVE strip(_)
strip(line) ==
    IF line = << >> THEN line
    ELSE IF Head(line) = " " THEN strip(Tail(line))
    ELSE IF line[Len(line)] = " " THEN strip(SubSeq(line, 1, Len(line) - 1))
    ELSE line

\* sep.join(lines)
RECURSIVE join(_, _)
join(sep, lines) ==
    IF lines = << >> THEN << >>
    ELSE IF Len(lines) = 1 THEN lines[1]
    ELSE lines[1] \o <<sep>> \o join(sep, Tail(lines))

\* line 40 and line 44: a pattern occurs in the line
Matches(line, c) == \E i \in 1..Len(line) : line[i] = c

\* lines 34-52: the loop over the lines from line i on; it is left at the
\* end of the lines or by the break of line 52.
RECURSIVE FilterLines(_, _, _, _, _)
FilterLines(lines, i, filtered_lines, in_main_content, max_chars) ==
    IF i > Len(lines) THEN filtered_lines
    ELSE LET line == strip(lines[i]) IN
         IF line = << >> \/ Matches(line, "k")
         THEN FilterLines(lines, i + 1, filtered_lines, in_main_content, max_chars)
         ELSE LET main == in_main_content \/ Matches(line, "m")
                  kept == IF main THEN Append(filtered_lines, line)
                          ELSE filtered_lines
              IN  IF Len(join("\n", kept)) >= max_chars THEN kept
                  ELSE FilterLines(lines, i + 1, kept, main, max_chars)

\* A test that sends a content of exactly max_chars characters on.
WithinBudget_Strict(content, max_chars) == Len(content) < max_chars

\* line 16: `not content or len(content) <= max_chars`
WithinBudget(content, max_chars) ==
    content = << >> \/ Len(content) <= max_chars

\* result[:max_chars//2]
HeadOf(result, max_chars) == SubSeq(result, 1, max_chars \div 2)

\* result[-max_chars//2:], where -max_chars//2 is (-max_chars)//2
TailOf(result, max_chars) ==
    LET n == -((-max_chars) \div 2) IN
    IF n = 0 THEN result ELSE SubSeq(result, Len(result) - n + 1, Len(result))

truncate_content(content, max_chars) ==
    IF WithinBudget(content, max_chars) THEN content
    ELSE LET lines == split(content, "\n")
             found == FilterLines(lines, 1, << >>, FALSE, max_chars)
             filtered_lines ==
                 IF found # << >> THEN found
                 ELSE SubSeq(lines, Len(lines) \div 4 + 1, (Len(lines) * 3) \div 4)
             result == join(" ", filtered_lines)
         IN  IF Len(result) > max_chars
             THEN HeadOf(result, max_chars) \o Marker \o TailOf(result, max_chars)
             ELSE result

\* One call of truncate_content.
TruncateInputs == [content : Contents, max_chars : {MaxChars}]

CallTruncate ==
    /\ output = << >>
    /\ output' = <<truncate_content(input.content, input.max_chars)>>
    /\ UNCHANGED <<input, task_pc, trace, lvars, dvars>>

SpecTruncate == InitCall(TruncateInputs) /\ [][CallTruncate]_vars

----------------------------------------------------------------------------
(***************************************************************************)
(* normalize_obfuscated_email (scholar_scraper.py), on texts that are      *)
(* sequences of characters.  None is << >>, a returned string s is <<s>>.  *)
(***************************************************************************)

LowerCase ==
    <<"a", "b", "c", "d", "e", "f", "g", "h", "i", "j", "k", "l", "m",
      "n", "o", "p", "q", "r", "s", "t", "u", "v", "w", "x", "y", "z">>
UpperCase ==
    <<"A", "B", "C", "D", "E", "F", "G", "H", "I", "J", "K", "L", "M",
      "N", "O", "P", "Q", "R", "S", "T", "U", "V", "W", "X", "Y", "Z">>

Letters == {LowerCase[i] : i \in 1..26} \cup {UpperCase[i] : i \in 1..26}
Digits == {"0", "1", "2", "3", "4", "5", "6", "7", "8", "9"}

\* str.lower()
lower(text) ==
    [i \in 1..Len(text) |->
        IF \E k \in 1..26 : UpperCase[k] = text[i]
        THEN LowerCase[CHOOSE k \in 1..26 : UpperCase[k] = text[i]]
        ELSE text[i]]

\* str.replace(old, new) and re.sub of a literal pattern: the occurrences
\* of the pattern, taken from the left and not overlapping, are replaced.
RECURSIVE sub(_, _, _)
sub(pattern, replacement, text) ==
    IF Len(text) < Len(pattern) THEN text
    ELSE IF SubSeq(text, 1, Len(pattern)) = pattern
         THEN replacement \o sub(pattern, replacement,
                                  SubSeq(text, Len(pattern) + 1, Len(text)))
         ELSE <<Head(text)>> \o sub(pattern, replacement, Tail(text))

\* re.sub(r'\s+', '', text)
NotSpace(c) == c \notin {" ", "\n"}
remove_spaces(text) == SelectSeq(text, NotSpace)

\* lines 63-70: the literal patterns and their replacements, in the order
\* of the dict (the last one, line 71, is remove_spaces).
patterns ==
    << <<<<"[", "a", "t", "]">>, <<"@">>>>,
       <<<<"(", "a", "t", ")">>, <<"@">>>>,
       <<<<" ", "a", "t", " ">>, <<"@">>>>,
       <<<<"[", "d", "o", "t", "]">>, <<".">>>>,
       <<<<"(", "d", "o", "t", ")">>, <<".">>>>,
       <<<<" ", "d", "o", "t", " ">>, <<".">>>>,
       <<<<"{", "d", "o", "t", "}">>, <<".">>>> >>

\* lines 74-75: the substitutions, one after the other
RECURSIVE sub_all(_, _)
sub_all(pats, text) ==
    IF pats = << >> THEN text
    ELSE sub_all(Tail(pats), sub(Head(pats)[1], Head(pats)[2], text))

\* line 78: ^[A-Za-z0-9._%+-]+@[A-Za-z0-9.-]+\.[A-Z|a-z]{2,}$
email_pattern(text) ==
    \E i, j \in 1..Len(text) :
        /\ 1 < i /\ i + 1 < j /\ j + 2 <= Len(text)
        /\ text[i] = "@" /\ text[j] = "."
        /\ \A k \in 1..(i - 1) :
              text[k] \in Letters \cup Digits \cup {".", "_", "%", "+", "-"}
        /\ \A k \in (i + 1)..(j - 1) : text[k] \in Letters \cup Digits \cup {".", "-"}
        /\ \A k \in (j + 1)..Len(text) : text[k] \in Letters \cup {"|"}

normalize_obfuscated_email(text) ==
    LET lowered == lower(text)
        bare == strip(sub(<<"c", "o", "n", "t", "a", "c", "t", " ", "i", "n", "f", "o", ":">>, << >>,
                      sub(<<"e", "m", "a", "i", "l", ":">>, << >>,
                      sub(<<"c", "o", "n", "t", "a", "c", "t", ":">>, << >>, lowered))))
        replaced == remove_spaces(sub_all(patterns, bare))
    IN  IF email_pattern(replaced) THEN <<replaced>> ELSE << >>

\* The texts of the calls: the addresses local@domain.eu whose labels are
\* taken from Labels, written with one of the at forms for '@' and one of
\* the dot forms for each '.', and a few texts that hold no address.
\* input.address is the address the text was written from (<< >> if none).
Labels == {<<"j">>, <<"a", "t">>, <<"c", "s">>}
TopLevel == <<"e", "u">>
AtForms ==
    {<<"[", "a", "t", "]">>, <<"(", "a", "t", ")">>, <<" ", "a", "t", " ">>,
     <<" ", "[", "a", "t", "]", " ">>, <<"[", "A", "T", "]">>}
DotForms ==
    {<<"[", "d", "o", "t", "]">>, <<"(", "d", "o", "t", ")">>,
     <<" ", "d", "o", "t", " ">>, <<"{", "d", "o", "t", "}">>,
     <<" ", "[", "D", "O", "T", "]", " ">>}
Locals == {<<l>> : l \in Labels} \cup {<<l, m>> : l \in Labels, m \in Labels}

Written(local, domain, at, dot1, dot2) ==
    (IF Len(local) = 1 THEN local[1] ELSE local[1] \o dot1 \o local[2])
        \o at \o domain \o dot2 \o TopLevel

NoAddress ==
    {<< >>, <<"j">>, <<"j", " ", "a", "t", " ", "c", "s">>,
     <<"j", "@", "c", "s">>, <<"@", "c", "s", ".", "e", "u">>,
     <<"j", "@", "c", "s", ".", "e">>}

NormalizeInputs ==
    {[text |-> Written(local, domain, at, dot1, dot2),
      address |-> Written(local, domain, <<"@">>, <<".">>, <<".">>)] :
        local \in Locals, domain \in Labels, at \in AtForms,
        dot1 \in DotForms, dot2 \in DotForms}
    \cup {[text |-> t, address |-> << >>] : t \in NoAddress}

\* One call of normalize_obfuscated_email.
CallNormalize ==
    /\ output = << >>
    /\ output' = <<normalize_obfuscated_email(input.text)>>
    /\ UNCHANGED <<input, task_pc, trace, lvars, dvars>>

SpecNormalize == InitCall(NormalizeInputs) /\ [][CallNormalize]_vars

----------------------------------------------------------------------------
\* Number of admitted calls whose return time lies in [s, s + time_window).
AdmittedIn(s) ==
    Cardinality({i \in 1..Len(returned) :
                    returned[i] >= s /\ returned[i] < s + time_window})

\* C1: no more than max_requests calls return within any rolling interval of
\* time_window ticks, for any sequence of calls on one instance.
C1_RollingBound ==
    \A s \in 0..MaxTime : AdmittedIn(s) <= max_requests

\* C2: no two concurrent callers both claim the same free slot: the callers
\* that found a free slot and have not yet appended fit into the free space.
C2_NoSharedSlot ==
    Len(requests)
      + Cardinality({t \in Threads : lpc[t] = "append" /\ claimed[t]})
      <= max_requests

----------------------------------------------------------------------------
(***************************************************************************)
(* The accumulator and the output files                                    *)
(***************************************************************************)

\* Two entries of a sequence of records carry the same profile_id.
HasDuplicateKey(rows) ==
    \E i, j \in 1..Len(rows) : i < j /\ rows[i].profile_id = rows[j].profile_id

\* C3 as stated: after any sequence of insertions the store holds exactly one
\* Record per distinct identity key.
C3_OneRecordPerKey == ~HasDuplicateKey(researchers)

\* C3 as amended: the store holds one Record per insertion, a repeated key
\* included, and of two Records with one key the one stored first is the one
\* inserted first (it comes from the earlier page).
C3_StoreKeepsEveryInsertion ==
    /\ Len(researchers) = processed_count
    /\ \A i, j \in 1..Len(researchers) :
         (i < j /\ researchers[i].profile_id = researchers[j].profile_id)
            => researchers[i].page < researchers[j].page

\* A stub found on two pages has been inserted twice.
C3_DuplicateInserted == HasDuplicateKey(researchers)

\* C4: every persisted output file holds exactly one row per profile_id.
C4_OneRowPerKey ==
    \A v \in DOMAIN files : ~HasDuplicateKey(files[v])

(***************************************************************************)
(* The batch of a page                                                     *)
(***************************************************************************)

\* C5: no listing page is requested, and no batch counts as complete, while a
\* detail task of the page before is pending or running.
C5_BatchBarrier ==
    pc \in {"after_batch", "loop", "request"} => pending = << >> /\ running = {}

\* The second listing request is about to be issued after a batch of several
\* tasks, one of which failed.
C5_NextPageAfterBatch ==
    /\ pc = "request"
    /\ page >= 1
    /\ Len(researchers) >= 2
    /\ \E i \in 1..Len(researchers) : ~researchers[i].ok

\* C6: at most max_workers = 5 detail tasks are in flight at any moment.
C6_AtMostWInFlight == Cardinality(running) <= max_workers

\* Five tasks are in flight and a sixth stub of the page waits in the queue.
C6_PoolSaturated == Cardinality(running) = max_workers /\ pending # << >>

(***************************************************************************)
(* Page-level failures and checkpoints                                     *)
(***************************************************************************)

\* C7 as stated: once a listing request has failed, no further listing page
\* is requested.
C7_StopsAfterPageError ==
    [][page_failed => listing_requests' = listing_requests]_vars

\* C7 as amended: the page-level handler, unless it is interrupted or its
\* save raises, writes a checkpoint and continues the loop with the next page
\* index and the cursor it had.
C7_ContinuesAfterPageError ==
    [][(pc = "except" /\ pc' \notin {"interrupted", "exit"})
          => /\ pc' = "loop"
             /\ page' = page + 1
             /\ after_author' = after_author
             /\ researchers' = researchers
             /\ written' = written + 1]_vars

\* A listing page has been requested and parsed after an earlier one failed.
C7_RequestAfterFailure == page_failed /\ pc = "batch"

\* C8: a page-level error is followed at once by a checkpoint that holds
\* every accumulated Record: until it is written the driver is in a handler.
C8_CheckpointOnPageError == owed => pc \in {"except", "interrupted"}

\* C9: a run that has ended has written an output file.
C9_OutputOnExit == pc = "exit" => written >= 1

\* C10: a run that has ended has written exactly one checkpoint since its
\* last listing request.
C10_ExactlyOneCheckpoint == pc = "exit" => since_request = 1

(***************************************************************************)
(* The end of the pagination                                               *)
(***************************************************************************)

\* C11: once a listing page has yielded an empty cursor no listing page is
\* requested any more: the batch of the page is completed, the loop is left
\* by the break of line 331 and the method returns (or the run is interrupted).
C11_StopsOnEmptyCursor ==
    [][(last_token = NoCursor /\ listing_requests >= 1)
          => /\ listing_requests' = listing_requests
             /\ pc' \in {"batch", "shutdown", "after_batch", "returned",
                         "interrupted", "exit"}
             /\ (pc = "after_batch" => pc' \in {"returned", "interrupted"})]_vars

\* The method has returned after a page with an empty cursor, with Records
\* collected and pages of its budget left.
C11_ReturnedExhausted ==
    /\ pc = "returned"
    /\ last_token = NoCursor
    /\ listing_requests >= 1
    /\ page + 1 < pages
    /\ researchers # << >>

\* How far the main thread is from the end of main.
PcRank ==
    CASE pc = "exit" -> 0
      [] pc \in {"returned", "interrupted"} -> 1
      [] pc = "shutdown" -> 2
      [] pc \in {"after_batch", "except"} -> 3
      [] pc = "batch" -> 4
      [] pc = "request" -> 5
      [] pc = "loop" -> 6

\* The steps the pool and the collecting loop still owe to the batch.
PoolWeight == 3 * Len(pending) + 2 * Cardinality(running) + Cardinality(finished)

\* A measure of what is left of the run: the pages of the budget first, then
\* the position inside the iteration, then the batch (a page submits at
\* most `roster` stubs).
StepsLeft ==
    PoolWeight + (3 * roster + 1) * (PcRank + 7 * (pages - page))

\* The run is not stuck: a handler or main's save is about to run, or a step
\* of the loop, of the pool or of the collecting loop is possible.
CanStep ==
    \/ pc \in {"except", "interrupted", "returned"}
    \/ ENABLED (ForPage \/ RequestFails \/ TaskStart \/ TaskFinish \/ Collect
                  \/ LeaveBatch \/ AfterBatch \/ Shutdown)

C13_StopsOnRepeatedCursor ==
    [][repeated => listing_requests' = listing_requests]_vars

\* C13 as amended: the walker has no loop guard.  After the batch of the page
\* that repeated the cursor it goes on, unless the user interrupts, to the
\* next page index with that cursor, and requests the page while the budget
\* lasts.
C13_NoLoopGuard ==
    [][(repeated /\ pc' # "interrupted")
          => /\ (pc = "after_batch" =>
                   pc' = "loop" /\ page' = page + 1 /\ after_author' = after_author)
             /\ (pc = "loop" => pc' = IF page < pages THEN "request" ELSE "returned")]_vars

\* The page after the second occurrence of a cursor is about to be requested.
C13_RequestAfterRepeat ==
    /\ repeated
    /\ pc = "request"
    /\ after_author = last_token

(***************************************************************************)
(* When checkpoints are written                                            *)
(***************************************************************************)

\* C14 as stated: when the next listing page is requested after a page whose
\* batch completed, a checkpoint has been written since the request of that
\* page.
C14_CheckpointAfterEachBatch ==
    (pc = "request" /\ page >= 1 /\ last_token # "error") => since_request >= 1

\* C14 as amended: a checkpoint is written only by the page-level handler,
\* by the interrupt handler and by main once the method has returned; the
\* completion of a batch writes none.
C14_CheckpointOnlyInHandlersAndMain ==
    [][(written' # written \/ files' # files)
          => pc \in {"except", "interrupted", "returned"}]_vars

\* The second page is about to be requested after a batch that collected
\* Records, and this run has written no file.
C14_NextPageWithoutCheckpoint ==
    /\ pc = "request"
    /\ page >= 1
    /\ ~page_failed
    /\ researchers # << >>
    /\ written = 0

\* C15: a checkpoint is taken only when no detail task is queued or in
\* flight, the step that writes it leaves the Record store as it is, and the
\* store is written only by the main thread's collecting loop, never by a
\* task: after an interruption the tasks have ended, and their results have
\* been inserted or are dropped, before the snapshot.  (One KeyboardInterrupt
\* is delivered per run; a second one would cut the executor's wait short,
\* and still no task would write to the store.)
C15_FinalizeThenSnapshot ==
    [][/\ (written' # written
             => pending = << >> /\ running = {} /\ researchers' = researchers)
       /\ (researchers' # researchers => pc = "batch")]_vars

\* An interrupted run has written its checkpoint; the interrupt came during
\* a batch, some results were inserted and a finished one was dropped.
C15_SnapshotAfterInterrupt ==
    /\ pc = "exit"
    /\ interrupted
    /\ written >= 1
    /\ finished # {}
    /\ researchers # << >>

(***************************************************************************)
(* The names of the output files                                           *)
(***************************************************************************)

OfThisPage == {i \in 1..Len(researchers) : researchers[i].page = page}

\* C19: the batch is left, unless the user interrupts, only when it is
\* complete, and then the store holds one Record for every stub the page
\* dispatched, whether or not a task of the batch has failed: the failed
\* task yields a partial Record, the others run to their end.
C19_FailureLeavesBatchWhole ==
    /\ pc = "after_batch" =>
          /\ Cardinality(OfThisPage) = Len(dispatched)
          /\ \A k \in 1..Len(dispatched) :
                \E i \in OfThisPage : researchers[i].profile_id = dispatched[k]
    /\ pc \in {"batch", "shutdown"} =>
          \A k \in 1..Len(dispatched) :
             \/ \E j \in 1..Len(pending) : pending[j] = dispatched[k]
             \/ dispatched[k] \in running
             \/ \E f \in finished : f.profile_id = dispatched[k]
             \/ \E i \in OfThisPage : researchers[i].profile_id = dispatched[k]

\* The batch of a page with several stubs is complete; one task failed and
\* the Records of the others are filled.
C19_BatchWithFailedTask ==
    /\ pc = "after_batch"
    /\ Len(dispatched) >= 2
    /\ Cardinality({i \in OfThisPage : ~researchers[i].ok}) = 1
    /\ Cardinality({i \in OfThisPage : researchers[i].ok}) >= 1

(***************************************************************************)
(* The extraction pipeline                                                 *)
(***************************************************************************)

\* The value a dict holds for a field, '' when the field is absent.
Field(d, f) == Get(d, f, "")

\* The service answered with a JSON object, bare or fenced.
IsFieldMap(answer) ==
    /\ ~answer.raises
    /\ \E o \in JsonObjects : answer.text \in {<<o>>, <<Fence, o, Fence>>}

\* C20: when the service raises, or answers with text that is no JSON or
\* with a JSON value that is no object, extract_researcher_data returns the
\* empty dict; with the client built it never raises.
C20_DefensiveParsing ==
    (output # << >> /\ input.client_ok)
       => /\ output[1].exc = "none"
          /\ (~IsFieldMap(input.answer) => output[1].value = EmptyDict)

\* The service answered with valid JSON that is no object, and the call
\* returned the empty dict.
C20_NonObjectGaveNoFields ==
    /\ output # << >>
    /\ input.client_ok
    /\ ~input.answer.raises
    /\ Len(input.answer.text) = 1
    /\ input.answer.text[1].t = "array"
    /\ output[1] = [exc |-> "none", value |-> EmptyDict]

\* The fields both tiers are asked for.
ExtractedFields == {"position", "institute", "email"}

\* What Tier 1 (Firecrawl and the structured extraction) yields for the
\* item: nothing when the item has no website or its profile was not read.
Tier1(in) ==
    IF in.fetch_ok /\ in.website # ""
    THEN crawl_personal_page(in.website, in)
    ELSE EmptyDict

\* What Tier 2 (the pattern search of the homepage) has for the item.
Tier2(in) ==
    IF in.fetch_ok /\ in.website # "" /\ in.website_email # ""
    THEN [email |-> in.website_email]
    ELSE EmptyDict

\* What the Scholar profile page itself showed for a field.
OnProfilePage(in, f) ==
    IF ~in.fetch_ok THEN ""
    ELSE IF f = "email" THEN in.email
    ELSE IF f = "position" THEN in.position
    ELSE ""

\* C17 as stated: a field of the Record is Tier 1's value when that is
\* non-empty, otherwise Tier 2's value, otherwise absent.
C17_TierOneThenTierTwo ==
    output # << >> =>
        \A f \in ExtractedFields :
            Field(output[1], f) =
                IF Field(Tier1(input), f) # "" THEN Field(Tier1(input), f)
                ELSE Field(Tier2(input), f)

\* C17 as amended: a field of the Record is Tier 1's value when that is
\* non-empty, otherwise the value read from the Scholar profile page when
\* that is non-empty, otherwise Tier 2's value (an email), otherwise empty.
C17_TierOneThenProfileThenTierTwo ==
    output # << >> =>
        \A f \in ExtractedFields :
            Field(output[1], f) =
                IF Field(Tier1(input), f) # "" THEN Field(Tier1(input), f)
                ELSE IF OnProfilePage(input, f) # "" THEN OnProfilePage(input, f)
                ELSE Field(Tier2(input), f)

\* Tier 1 gave a position and no email, Tier 2 an email, and the profile page
\* another position: the Record has Tier 1's position and Tier 2's email.
C17_PositionFromTier1EmailFromTier2 ==
    /\ output # << >>
    /\ Field(Tier1(input), "position") = "x"
    /\ Field(Tier1(input), "email") = ""
    /\ input.position = "p0"
    /\ input.email = ""
    /\ Field(output[1], "position") = "x"
    /\ Field(output[1], "email") = "e2"

\* The structured extraction ran for the item and its answer classified the
\* funding likelihood.
Classified(in) ==
    /\ in.fetch_ok /\ in.website # "" /\ in.api_key /\ in.scrape # "fails"
    /\ LET extracted_data == extract_researcher_data(in.client_ok, in.answer)
       IN  extracted_data.exc = "none"
             /\ "funding_likelihood" \in DOMAIN extracted_data.value

\* C18: a Record for which no tier classified the funding likelihood has
\* funding_likelihood = "Medium".
C18_FundingDefaultsToMedium ==
    (output # << >> /\ ~Classified(input))
        => Field(output[1], "funding_likelihood") = "Medium"

(***************************************************************************)
(* Credential failures and the status of the run                           *)
(***************************************************************************)

\* The item has a homepage to crawl and a credential of an external service
\* is missing: FIRECRAWL_API_KEY, or the key the OpenAI client is built with.
CredentialFailure(in) ==
    /\ in.fetch_ok
    /\ in.website # ""
    /\ (~in.api_key \/ (in.scrape # "fails" /\ ~in.client_ok))

\* C21 as stated: a detail task that meets a credential failure does not
\* hand a Record to the batch as if nothing had happened: the failure ends
\* the run.
C21_CredentialFailureIsFatal ==
    CredentialFailure(input) => output = << >>

\* C21 as amended: a credential failure is not fatal.  The crawl returns {}
\* and get_profile_details returns the Record of the profile page, with the
\* email of the pattern search when the page showed none, as it does for
\* any other failure of the crawl.
C21_CredentialFailureDegrades ==
    (output # << >> /\ CredentialFailure(input))
        => output[1] = [email |-> IF input.email # "" THEN input.email
                                  ELSE input.website_email,
                        website |-> input.website,
                        position |-> input.position,
                        institute |-> "",
                        funding_likelihood |-> ""] @@ input.researcher

\* A task whose crawl had no API key has returned a Record with the
\* position of the profile page and the email of the pattern search.
C21_RecordDespiteMissingKey ==
    /\ output # << >>
    /\ CredentialFailure(input)
    /\ ~input.api_key
    /\ input.position = "p0"
    /\ Field(output[1], "position") = "p0"
    /\ Field(output[1], "email") = "e2"

\* C22 as stated: a run ends with an error status only on a fatal
\* (credential) termination, which the driver does not have: every run that
\* ends, ends normally.
C22_ErrorStatusOnlyWhenFatal == pc = "exit" => exit_status = "ok"

\* C22 as amended: a run ends with an error status exactly when the user
\* interrupted it (the handler re-raises after its checkpoint) or its Record
\* set is empty (save_results raises); exhaustion, the page budget and
\* page-level failures end the run normally when Records were collected.
C22_ErrorStatusOnInterruptOrEmpty ==
    pc = "exit" =>
        (exit_status = "error" <=> (interrupted \/ researchers = << >>))

\* An interrupted run has written its checkpoint and ended with an error
\* status.
C22_InterruptEndsInError ==
    /\ pc = "exit"
    /\ interrupted
    /\ written >= 1
    /\ researchers # << >>
    /\ exit_status = "error"

(***************************************************************************)
(* Tasks that do not come back                                             *)
(***************************************************************************)

\* C23: every dispatched task ends, so the batch of a page can always go on:
\* while the main thread is in the batch, or waits for the executor to shut
\* down, a task can start or end, a result can be collected, or the wait is
\* over.
C23_BatchCanAlwaysGoOn ==
    pc \in {"batch", "shutdown"}
        => ENABLED (TaskStart \/ TaskFinish \/ Collect \/ LeaveBatch \/ Shutdown)

(***************************************************************************)
(* truncate_content                                                        *)
(***************************************************************************)

\* C24: a content of at most max_chars characters, the empty one included,
\* is returned as it is.
C24_UnchangedWithinBudget ==
    (output # << >> /\ Len(input.content) <= input.max_chars)
        => output[1] = input.content

\* A content of exactly max_chars characters that the filter would have
\* shortened has been returned unchanged.
C24_FullBudgetReturned ==
    /\ output # << >>
    /\ Len(input.content) = input.max_chars
    /\ Matches(input.content, "k")
    /\ Matches(input.content, "\n")
    /\ output[1] = input.content

\* The number of places at which the marker occurs in a text.
MarkerCount(text) ==
    Cardinality({i \in 1..(Len(text) - Len(Marker) + 1) :
                    SubSeq(text, i, i + Len(Marker) - 1) = Marker})

\* C25: for a content of at least three times the budget the result has at
\* most max_chars characters and holds the truncation marker exactly once.
C25_WithinBudgetWithOneMarker ==
    (output # << >> /\ Len(input.content) >= 3 * input.max_chars)
        => /\ Len(output[1]) <= input.max_chars
           /\ MarkerCount(output[1]) = 1

\* C26: a text written from a valid address with the at forms and the dot
\* forms is normalised to exactly that address, and a text that holds no
\* address gives None.
C26_ExactDeobfuscation ==
    output # << >> =>
        /\ input.address # << >> => output[1] = <<input.address>>
        /\ input.address = << >> => output[1] = << >>

\* C27: whatever the two tiers return, the Record that get_profile_details
\* returns has the profile_id and the profile_url of the stub it was built
\* from.
C27_IdentityCarriedThrough ==
    output # << >> =>
        /\ {"profile_id", "profile_url"} \subseteq DOMAIN output[1]
        /\ output[1]["profile_id"] = input.researcher["profile_id"]
        /\ output[1]["profile_url"] = input.researcher["profile_url"]

\* The structured extraction answered with an object that has keys named
\* profile_id and profile_url, Tier 1 handed its position to the Record, and
\* the Record still has the identity of the stub.
C27_IdentityKeptDespiteAnswer ==
    /\ output # << >>
    /\ ~input.answer.raises
    /\ \E o \in JsonObjects :
          /\ input.answer.text = <<o>>
          /\ {"profile_id", "profile_url"} \subseteq DOMAIN o.v
    /\ Field(Tier1(input), "position") = "x"
    /\ Field(output[1], "position") = "x"
    /\ output[1]["profile_id"] = "id1"

\* The call of thread t found the queue at capacity and slept.
Waited(t) == wake[t] > now[t]

\* C28: a call that waited records, when it proceeds, the time at which it
\* proceeds: the timestamp it appends is the time after the wait, not the
\* time of its arrival.
C28_StampIsProceedTime ==
    [][\A t \in Threads :
          (lpc[t] = "append" /\ lpc'[t] = "idle" /\ Waited(t))
              => /\ requests' = Append(requests, clock)
                 /\ requests'[Len(requests')] # now[t]]_vars

\* The network fetches of a task: the profile page, the scrapes of the
\* content service, the homepage.
Fetches == {"get_profile", "scrape_url", "get_website"}

\* C29: every network fetch of a detail task comes right after a
\* rate_limiter.wait_if_needed() of its own.
C29_AcquireBeforeEveryFetch ==
    \A i \in 1..Len(trace) :
        trace[i] \in Fetches => (i > 1 /\ trace[i - 1] = "wait_if_needed")

\* C30: once the user has interrupted a batch, no task of the batch is
\* started any more, and the handler (checkpoint and exit) is reached
\* without waiting for the tasks of the page that are queued or running.
C30_NoStartNoWaitAfterInterrupt ==
    [][interrupted =>
          /\ running' \subseteq running
          /\ (pc = "shutdown" => ENABLED Shutdown)]_vars

\* The fallback lookup ran for the item and returned a value: after the
\* profile page and the crawl the item has a website and still no email, and
\* the pattern search of the homepage finds one.
LookupGaveEmail(in) ==
    /\ Field(enhanced(in), "website") # ""
    /\ Field(enhanced(in), "email") = ""
    /\ in.website_email # ""

\* C31: the Record gets the fallback email only when the lookup ran and
\* returned a value; in every other case the Record is, email included, what
\* it was before the fallback step.
C31_FallbackOnlyWhenLookupGaveEmail ==
    (output # << >> /\ input.fetch_ok) =>
        IF LookupGaveEmail(input)
        THEN output[1] = [enhanced(input) EXCEPT !["email"] = input.website_email]
        ELSE output[1] = enhanced(input)

\* The homepage would give an email, the crawl has already found one, and
\* the Record keeps the email of the crawl.
C31_CrawlEmailKept ==
    /\ output # << >>
    /\ input.fetch_ok
    /\ input.website_email = "e2"
    /\ input.email = ""
    /\ Field(Tier1(input), "email") = "x"
    /\ Field(output[1], "email") = "x"

\* The timestamps of the queue are in non-decreasing order.
Ordered(q) == \A i, j \in 1..Len(q) : i < j => q[i] <= q[j]

\* C32: after any interleaving of wait_if_needed calls the queue holds at
\* most max_requests timestamps, in non-decreasing order.
C32_QueueBoundedAndOrdered ==
    /\ Len(requests) <= max_requests
    /\ Ordered(requests)

\* The number of times a profile id occurs among the stubs dispatched.
DispatchCount(id) == Cardinality({k \in 1..Len(dispatched) : dispatched[k] = id})

\* C33: when the batch of a page is left as complete, the entries the store
\* has received for the page are its last Len(dispatched) entries: one for
\* each stub dispatched, no more and no fewer, each the stub of its task
\* (identity and name) with the fields the task filled, whether the task
\* succeeded or failed.
C33_OneEntryPerDispatchedStub ==
    [][(pc = "batch" /\ pc' = "after_batch") =>
          LET n == Len(dispatched)
              m == Len(researchers)
          IN  /\ m >= n
              /\ \A i \in 1..(m - n) : researchers[i].page # page
              /\ \A i \in (m - n + 1)..m :
                    /\ researchers[i] = Profile(researchers[i].profile_id, page,
                                                researchers[i].ok)
                    /\ Cardinality({j \in (m - n + 1)..m :
                                      researchers[j].profile_id = researchers[i].profile_id})
                         = DispatchCount(researchers[i].profile_id)]_vars

\* The batch of the second page is complete: the store holds entries of the
\* first page, and for the second page the entry of a task that failed.
C33_LaterPageWithFailedTask ==
    /\ pc = "after_batch"
    /\ page = 1
    /\ \E i \in 1..Len(researchers) : researchers[i].page = 0
    /\ \E i \in OfThisPage : ~researchers[i].ok
    /\ Cardinality(OfThisPage) = Len(dispatched)

\* C34: the first listing request of a run carries no cursor; a later one
\* carries the cursor that the listing page just before it returned, and no
\* cursor of an older page when the page just before it failed.
C34_CursorChaining ==
    [][listing_requests' = listing_requests + 1 =>
          IF listing_requests = 0 \/ last_token = "error"
          THEN params_after_author = NoCursor
          ELSE params_after_author = last_token]_vars

====
